---- MODULE Spec2Model ----
(***************************************************************************)
(* Twins Study dashboard (june37333/astro2): app.py and main.py.           *)
(*                                                                         *)
(* Both scripts are Streamlit scripts: every interaction re-runs the whole *)
(* script top to bottom.  One run is: load two CSV record sets through a   *)
(* memoised loader, halt if either is absent, filter by the duration       *)
(* slider, offer the Gene / Marker dropdowns, narrow and chart each panel. *)
(* The two scripts are run side by side on the same inputs, each with its  *)
(* own memo, so that their outcomes can be compared run by run.            *)
(*                                                                         *)
(* A CSV file (or upload) is represented by the record set it parses to;   *)
(* malformed input (a parse error) is not modelled.                        *)
(***************************************************************************)
EXTENDS Integers, Sequences, FiniteSets

VARIABLES
  files,          \* path -> record set on disk, or Absent
  uploads,        \* path -> record set held by the file_uploader, or Absent
  enable_upload,  \* the "Use CSV Uploader" checkbox
  days_in_space,  \* the duration slider
  pick,           \* the user's last choice in each dropdown
  app_cache,      \* app.py:  memo of load_data, keyed by path (and label)
  main_cache,     \* main.py: memo of load_csv, keyed by path (and label)
  app_out,        \* what the last run of app.py showed
  main_out        \* what the last run of main.py showed

vars == <<files, uploads, enable_upload, days_in_space, pick,
          app_cache, main_cache, app_out, main_out>>

----------------------------------------------------------------------------
(* Constants of the program and bounds of the model *)

max_days == 340

MaxRows == 2

GENE_FILE == "data/gene_expression.csv"
OX_FILE   == "data/oxidative_stress.csv"
Paths     == {GENE_FILE, OX_FILE}

GeneColumns == {"Timepoint", "Twin", "Gene", "Expression"}
OxColumns   == {"Timepoint", "Marker", "Value"}

\* Values the cells of the record sets are drawn from.  400 lies beyond the
\* slider's range, 200 and 0 are slider stops.
TimeVals == {0, 200, 400}
Genes    == {"X", "Y"}
Markers  == {"M", "N"}
Twins    == {"A"}
Levels   == {1}

\* The slider positions the model moves the slider to.
SliderStops == {0, 200, max_days}

----------------------------------------------------------------------------
(* Record sets *)

None    == [none |-> TRUE]       \* Python's None
Absent  == [absent |-> TRUE]     \* no file at the path / nothing uploaded
NoValue == "None"                \* what selectbox returns for no options

Restrict(r, cols) == [c \in cols |-> r[c]]

Range(s) == {s[i] : i \in 1..Len(s)}

SeqsUpTo(S, n) == UNION {[1..k -> S] : k \in 0..n}

GeneRows == [Timepoint : TimeVals, Twin : Twins, Gene : Genes, Expression : Levels]
OxRows   == [Timepoint : TimeVals, Marker : Markers, Value : Levels]

Frame(cols, rows) ==
  [columns |-> cols, rows |-> [i \in 1..Len(rows) |-> Restrict(rows[i], cols)]]

\* Every record set with all its columns and at most MaxRows rows.
GeneFrames == {Frame(GeneColumns, s) : s \in SeqsUpTo(GeneRows, MaxRows)}
OxFrames   == {Frame(OxColumns, s) : s \in SeqsUpTo(OxRows, MaxRows)}

\* One record set per set of columns: all of them, and each one missing.
GeneSampleRows ==
  << [Timepoint |-> 400, Twin |-> "A", Gene |-> "X", Expression |-> 1],
     [Timepoint |-> 0,   Twin |-> "A", Gene |-> "Y", Expression |-> 1] >>
OxSampleRows ==
  << [Timepoint |-> 400, Marker |-> "M", Value |-> 1],
     [Timepoint |-> 0,   Marker |-> "N", Value |-> 1] >>

GeneSamples ==
  {Frame(GeneColumns, GeneSampleRows)}
    \cup {Frame(GeneColumns \ {c}, GeneSampleRows) : c \in GeneColumns}
OxSamples ==
  {Frame(OxColumns, OxSampleRows)}
    \cup {Frame(OxColumns \ {c}, OxSampleRows) : c \in OxColumns}

\* What appears on disk, and what is uploaded, while the program runs.
DiskContents(path) ==
  IF path = GENE_FILE THEN {Frame(GeneColumns, GeneSampleRows)}
                      ELSE {Frame(OxColumns, OxSampleRows)}
UploadContents(path) ==
  IF path = GENE_FILE
    THEN {Frame(GeneColumns, <<[Timepoint |-> 200, Twin |-> "A", Gene |-> "Y", Expression |-> 1]>>)}
    ELSE {Frame(OxColumns, <<[Timepoint |-> 200, Marker |-> "N", Value |-> 1]>>)}

----------------------------------------------------------------------------
(* Pure functions of the pipeline *)

IsFrame(df) == "columns" \in DOMAIN df

\* pandas boolean indexing df[mask]: the rows whose mask is true (kept, in
\* their order), with the same columns.
Keep(df, kept) == [columns |-> df.columns, rows |-> kept]

\* filter_by_days with the comparison made strict.
filter_by_days_strict(df, days) ==
  IF "Timepoint" \notin df.columns
    THEN df
    ELSE Keep(df, SelectSeq(df.rows, LAMBDA r : r.Timepoint < days))

\* app.py filter_by_days; the global days_in_space is the second argument.
filter_by_days(df, days) ==
  IF "Timepoint" \notin df.columns
    THEN df
    ELSE Keep(df, SelectSeq(df.rows, LAMBDA r : r.Timepoint <= days))

\* filter_days with the comparison turned round.
filter_days_reversed(df, days) ==
  IF df = None \/ "Timepoint" \notin df.columns
    THEN None
    ELSE Keep(df, SelectSeq(df.rows, LAMBDA r : r.Timepoint >= days))

\* filter_days without its `df is None` test: None.columns raises.
filter_days_unguarded(df, days) ==
  IF df = None THEN [raised |-> "AttributeError"]
  ELSE IF "Timepoint" \notin df.columns THEN None
  ELSE Keep(df, SelectSeq(df.rows, LAMBDA r : r.Timepoint <= days))

\* main.py filter_days; the global days_in_space is the second argument.
filter_days(df, days) ==
  IF df = None \/ "Timepoint" \notin df.columns
    THEN None
    ELSE Keep(df, SelectSeq(df.rows, LAMBDA r : r.Timepoint <= days))

\* df[col].unique(): the distinct values in order of first appearance.
RECURSIVE Distinct(_)
Distinct(s) ==
  IF s = <<>> THEN <<>>
  ELSE LET front == Distinct(SubSeq(s, 1, Len(s) - 1))
           last  == s[Len(s)]
       IN IF last \in Range(front) THEN front ELSE Append(front, last)

unique(df, col) == Distinct([i \in 1..Len(df.rows) |-> df.rows[i][col]])

\* st.selectbox: the user's choice while it is one of the options, else the
\* first option, and None when there are no options.
selectbox(options, choice) ==
  IF options = <<>> THEN NoValue
  ELSE IF choice \in Range(options) THEN choice
  ELSE options[1]

\* The selector reading the filtered record set instead of the loaded one.
gene_choices_filtered(gene_df, gene_f) == unique(gene_f, "Gene")

\* app.py line 99: the options of "Select Gene" (gene_f is in scope too).
gene_choices(gene_df, gene_f) == unique(gene_df, "Gene")

\* The narrowing left out: the panel is given every filtered row.
df_g_unnarrowed(gene_f, selected_gene) == gene_f

\* gene_f[gene_f['Gene'] == selected_gene] and its three siblings.
df_gene(gene_f, selected_gene) == Keep(gene_f, SelectSeq(gene_f.rows, LAMBDA r : r.Gene = selected_gene))
df_ox(ox_f, selected_marker)   == Keep(ox_f, SelectSeq(ox_f.rows, LAMBDA r : r.Marker = selected_marker))
df_g(gene_f, selected_gene)    == Keep(gene_f, SelectSeq(gene_f.rows, LAMBDA r : r.Gene = selected_gene))
df_o(go_f, selected_marker)    == Keep(go_f, SelectSeq(go_f.rows, LAMBDA r : r.Marker = selected_marker))

----------------------------------------------------------------------------
(* The loader and its memo *)

NotCached == [miss |-> TRUE]
EmptyCache == [p \in Paths |-> NotCached]

FileNotFound(path) == "File not found: " \o path

\* The body of app.py load_data: the record set (or None) and whether the
\* sidebar warning was emitted.
load_data(path, upload_mode, disk, uploaded) ==
  IF upload_mode
    THEN IF uploaded[path] # Absent
           THEN [value |-> uploaded[path], warned |-> FALSE]
           ELSE [value |-> None, warned |-> FALSE]
    ELSE IF disk[path] # Absent
           THEN [value |-> disk[path], warned |-> FALSE]
           ELSE [value |-> None, warned |-> TRUE]

\* The body of main.py load_csv.
load_csv(path, upload_mode, disk, uploaded) ==
  IF upload_mode
    THEN IF uploaded[path] # Absent
           THEN [value |-> uploaded[path], warned |-> FALSE]
           ELSE [value |-> None, warned |-> FALSE]
    ELSE IF disk[path] # Absent
           THEN [value |-> disk[path], warned |-> FALSE]
           ELSE [value |-> None, warned |-> TRUE]

\* @st.cache_data: the memo is keyed by the arguments (path, label) alone.
\* On a hit the body is not run: the stored value is returned and the
\* stored elements (the warning) are replayed.  On a miss the body runs
\* and its result is stored.
cache_data(cache, path, body) ==
  IF cache[path] # NotCached THEN cache[path] ELSE body

Store(cache, path, entry) == [cache EXCEPT ![path] = entry]

----------------------------------------------------------------------------
(* What one run of a script shows *)

Skipped == [skipped |-> TRUE]    \* a value the run never computed

NoSelector == [shown |-> FALSE, options |-> <<>>, value |-> NoValue]
Selector(options, value) == [shown |-> TRUE, options |-> options, value |-> value]

\* A panel: not reached, the error banner, or the chart; `rows` are the
\* narrowed rows the panel was given.
NoPanel        == [kind |-> "none",  rows |-> <<>>]
ErrorPanel(df) == [kind |-> "error", rows |-> df.rows]
Chart(df)      == [kind |-> "chart", rows |-> df.rows]

ProvideBoth   == "Please provide both files"
GeneMissing   == "'Gene' column missing in gene_expression.csv"
MarkerMissing == "'Marker' column missing in oxidative_stress.csv"
GeneRequired  == "Required columns missing in gene_expression.csv"
OxRequired    == "Required columns missing in oxidative_stress.csv"

\* The warnings the two loader calls leave in the sidebar.
Warnings(gene, ox) ==
  (IF gene.warned THEN {FileNotFound(GENE_FILE)} ELSE {})
    \cup (IF ox.warned THEN {FileNotFound(OX_FILE)} ELSE {})

\* The run up to the end of the two loader calls; the later stages extend it.
Loaded(gene, ox, disk, uploaded, upload_mode, bodyGene, bodyOx) ==
  [ status      |-> "done",
    exception   |-> "",
    messages    |-> Warnings(gene, ox),
    loaded      |-> [p \in Paths |-> IF p = GENE_FILE THEN gene.value ELSE ox.value],
    uncached    |-> [p \in Paths |-> IF p = GENE_FILE THEN bodyGene ELSE bodyOx],
    existed     |-> {p \in Paths : disk[p] # Absent},
    upload_mode |-> upload_mode,
    gene_f      |-> Skipped,
    ox_f        |-> Skipped,
    gene_select |-> NoSelector,
    ox_select   |-> NoSelector,
    gene_panel  |-> NoPanel,
    ox_panel    |-> NoPanel ]

\* The gene panel of app.py (lines 111-123) and of main.py (74-84): the
\* narrowed rows charted, or the error banner.
AppGenePanel(narrowed) ==
  IF {"Timepoint", "Twin", "Expression"} \subseteq narrowed.columns
    THEN Chart(narrowed) ELSE ErrorPanel(narrowed)
AppOxPanel(narrowed) ==
  IF {"Timepoint", "Value"} \subseteq narrowed.columns
    THEN Chart(narrowed) ELSE ErrorPanel(narrowed)
MainGenePanel(narrowed) ==
  IF {"Timepoint", "Twin", "Expression"} \subseteq narrowed.columns
    THEN Chart(narrowed) ELSE ErrorPanel(narrowed)
MainOxPanel(narrowed) ==
  IF {"Timepoint", "Value"} \subseteq narrowed.columns
    THEN Chart(narrowed) ELSE ErrorPanel(narrowed)

\* One run of app.py from the memo `cache` on the given inputs: the memo
\* it leaves and what it shows.
app_py(cache, disk, uploaded, upload_mode, days, choice) ==
  LET bodyGene == load_data(GENE_FILE, upload_mode, disk, uploaded)
      gene     == cache_data(cache, GENE_FILE, bodyGene)
      cache1   == Store(cache, GENE_FILE, gene)
      bodyOx   == load_data(OX_FILE, upload_mode, disk, uploaded)
      ox       == cache_data(cache1, OX_FILE, bodyOx)
      cache2   == Store(cache1, OX_FILE, ox)
      gene_df  == gene.value
      ox_df    == ox.value
      run0     == Loaded(gene, ox, disk, uploaded, upload_mode, bodyGene.value, bodyOx.value)
  IN
  IF gene_df = None \/ ox_df = None THEN
    \* lines 73-77: warning, st.stop()
    [cache |-> cache2,
     out |-> [run0 EXCEPT !.status = "halted",
                          !.messages = @ \cup {ProvideBoth}]]
  ELSE
    LET gene_f == filter_by_days(gene_df, days)
        ox_f   == filter_by_days(ox_df, days)
        run1   == [run0 EXCEPT !.gene_f = gene_f, !.ox_f = ox_f]
    IN
    IF "Gene" \notin gene_df.columns THEN
      \* line 98: the assert fails, the run aborts
      [cache |-> cache2,
       out |-> [run1 EXCEPT !.status = "aborted", !.exception = "AssertionError"]]
    ELSE
      LET selected_gene == selectbox(gene_choices(gene_df, gene_f), choice.gene)
          run2 == [run1 EXCEPT !.gene_select =
                     Selector(gene_choices(gene_df, gene_f), selected_gene)]
      IN
      IF "Marker" \notin ox_df.columns THEN
        \* line 102: the assert fails, the run aborts
        [cache |-> cache2,
         out |-> [run2 EXCEPT !.status = "aborted", !.exception = "AssertionError"]]
      ELSE
        LET selected_marker == selectbox(unique(ox_df, "Marker"), choice.marker)
            gene_panel == AppGenePanel(df_gene(gene_f, selected_gene))
            ox_panel   == AppOxPanel(df_ox(ox_f, selected_marker))
        IN
        [cache |-> cache2,
         out |-> [run2 EXCEPT
                    !.ox_select = Selector(unique(ox_df, "Marker"), selected_marker),
                    !.gene_panel = gene_panel,
                    !.ox_panel = ox_panel,
                    !.messages = @ \cup (IF gene_panel.kind = "error" THEN {GeneRequired} ELSE {})
                                   \cup (IF ox_panel.kind = "error" THEN {OxRequired} ELSE {})]]

\* st.stop() without the st.error before it.
stop_without_error(run, message) == [run EXCEPT !.status = "halted"]

\* main.py: st.error(message) followed by st.stop().
error_and_stop(run, message) ==
  [run EXCEPT !.status = "halted", !.messages = @ \cup {message}]

\* One run of main.py.
main_py(cache, disk, uploaded, upload_mode, days, choice) ==
  LET bodyGene == load_csv(GENE_FILE, upload_mode, disk, uploaded)
      gene     == cache_data(cache, GENE_FILE, bodyGene)
      cache1   == Store(cache, GENE_FILE, gene)
      bodyOx   == load_csv(OX_FILE, upload_mode, disk, uploaded)
      ox       == cache_data(cache1, OX_FILE, bodyOx)
      cache2   == Store(cache1, OX_FILE, ox)
      gene_df  == gene.value
      ox_df    == ox.value
      run0     == Loaded(gene, ox, disk, uploaded, upload_mode, bodyGene.value, bodyOx.value)
  IN
  IF gene_df = None \/ ox_df = None THEN
    \* lines 47-49: warning, st.stop()
    [cache |-> cache2,
     out |-> [run0 EXCEPT !.status = "halted",
                          !.messages = @ \cup {ProvideBoth}]]
  ELSE IF "Gene" \notin gene_df.columns THEN
    \* lines 57-59: error banner, st.stop()
    [cache |-> cache2,
     out |-> error_and_stop(run0, GeneMissing)]
  ELSE
    LET selected_gene == selectbox(unique(gene_df, "Gene"), choice.gene)
        run1 == [run0 EXCEPT !.gene_select =
                   Selector(unique(gene_df, "Gene"), selected_gene)]
    IN
    IF "Marker" \notin ox_df.columns THEN
      \* lines 64-66: error banner, st.stop()
      [cache |-> cache2,
       out |-> error_and_stop(run1, MarkerMissing)]
    ELSE
      LET selected_marker == selectbox(unique(ox_df, "Marker"), choice.marker)
          gene_f == filter_days(gene_df, days)
          go_f   == filter_days(ox_df, days)
          run2   == [run1 EXCEPT
                       !.ox_select = Selector(unique(ox_df, "Marker"), selected_marker),
                       !.gene_f = gene_f,
                       !.ox_f = go_f]
      IN
      IF gene_f = None THEN
        \* line 76: None['Gene'] raises TypeError, the run aborts
        [cache |-> cache2,
         out |-> [run2 EXCEPT !.status = "aborted", !.exception = "TypeError"]]
      ELSE
        LET gene_panel == MainGenePanel(df_g(gene_f, selected_gene))
            run3 == [run2 EXCEPT
                       !.gene_panel = gene_panel,
                       !.messages = @ \cup (IF gene_panel.kind = "error"
                                              THEN {GeneRequired} ELSE {})]
        IN
        IF go_f = None THEN
          \* line 89: None['Marker'] raises TypeError, the run aborts
          [cache |-> cache2,
           out |-> [run3 EXCEPT !.status = "aborted", !.exception = "TypeError"]]
        ELSE
          LET ox_panel == MainOxPanel(df_o(go_f, selected_marker))
          IN
          [cache |-> cache2,
           out |-> [run3 EXCEPT
                      !.ox_panel = ox_panel,
                      !.messages = @ \cup (IF ox_panel.kind = "error"
                                             THEN {OxRequired} ELSE {})]]

----------------------------------------------------------------------------
(* The interactions *)

\* Streamlit re-runs both scripts on the inputs as they now are.
Run(disk, uploaded, upload_mode, days, choice) ==
  LET a == app_py(app_cache, disk, uploaded, upload_mode, days, choice)
      m == main_py(main_cache, disk, uploaded, upload_mode, days, choice)
  IN /\ app_cache' = a.cache
     /\ app_out' = a.out
     /\ main_cache' = m.cache
     /\ main_out' = m.out

NoChoice  == [gene |-> NoValue, marker |-> NoValue]
NoUploads == [p \in Paths |-> Absent]

\* The first run of a fresh server: widgets at their defaults, memo empty.
FirstRun(disk) ==
  LET a == app_py(EmptyCache, disk, NoUploads, FALSE, max_days, NoChoice)
      m == main_py(EmptyCache, disk, NoUploads, FALSE, max_days, NoChoice)
  IN /\ files = disk
     /\ uploads = NoUploads
     /\ enable_upload = FALSE
     /\ days_in_space = max_days
     /\ pick = NoChoice
     /\ app_cache = a.cache
     /\ app_out = a.out
     /\ main_cache = m.cache
     /\ main_out = m.out

\* One data set ranges over every record set within the bounds while the
\* other ranges over the samples (or is absent).
Init ==
  \E g \in GeneFrames \cup GeneSamples \cup {Absent},
     o \in OxFrames \cup OxSamples \cup {Absent} :
    /\ g \in GeneSamples \cup {Absent} \/ o \in OxSamples \cup {Absent}
    /\ FirstRun([p \in Paths |-> IF p = GENE_FILE THEN g ELSE o])

\* The files are the fixed samples or absent; they come and go afterwards.
InitReload ==
  \E g \in DiskContents(GENE_FILE) \cup {Absent},
     o \in DiskContents(OX_FILE) \cup {Absent} :
    FirstRun([p \in Paths |-> IF p = GENE_FILE THEN g ELSE o])

MoveSlider ==
  \E b \in SliderStops :
    /\ b # days_in_space
    /\ days_in_space' = b
    /\ UNCHANGED <<files, uploads, enable_upload, pick>>
    /\ Run(files, uploads, enable_upload, b, pick)

ToggleUpload ==
  /\ enable_upload' = ~enable_upload
  /\ UNCHANGED <<files, uploads, days_in_space, pick>>
  /\ Run(files, uploads, ~enable_upload, days_in_space, pick)

SelectGene ==
  \E v \in Range(app_out.gene_select.options) \cup Range(main_out.gene_select.options) :
    /\ v # pick.gene
    /\ pick' = [pick EXCEPT !.gene = v]
    /\ UNCHANGED <<files, uploads, enable_upload, days_in_space>>
    /\ Run(files, uploads, enable_upload, days_in_space, pick')

SelectMarker ==
  \E v \in Range(app_out.ox_select.options) \cup Range(main_out.ox_select.options) :
    /\ v # pick.marker
    /\ pick' = [pick EXCEPT !.marker = v]
    /\ UNCHANGED <<files, uploads, enable_upload, days_in_space>>
    /\ Run(files, uploads, enable_upload, days_in_space, pick')

\* The file_uploader exists in upload mode only.
Upload ==
  \E p \in Paths : \E c \in UploadContents(p) :
    /\ enable_upload
    /\ uploads[p] # c
    /\ uploads' = [uploads EXCEPT ![p] = c]
    /\ UNCHANGED <<files, enable_upload, days_in_space, pick>>
    /\ Run(files, uploads', enable_upload, days_in_space, pick)

WithdrawUpload ==
  \E p \in Paths :
    /\ enable_upload
    /\ uploads[p] # Absent
    /\ uploads' = [uploads EXCEPT ![p] = Absent]
    /\ UNCHANGED <<files, enable_upload, days_in_space, pick>>
    /\ Run(files, uploads', enable_upload, days_in_space, pick)

\* The files change between runs: nothing is re-run.
FileAppears ==
  \E p \in Paths : \E c \in DiskContents(p) :
    /\ files[p] = Absent
    /\ files' = [files EXCEPT ![p] = c]
    /\ UNCHANGED <<uploads, enable_upload, days_in_space, pick,
                   app_cache, main_cache, app_out, main_out>>

FileDisappears ==
  \E p \in Paths :
    /\ files[p] # Absent
    /\ files' = [files EXCEPT ![p] = Absent]
    /\ UNCHANGED <<uploads, enable_upload, days_in_space, pick,
                   app_cache, main_cache, app_out, main_out>>

\* "Rerun" of the Streamlit menu.
Rerun ==
  /\ UNCHANGED <<files, uploads, enable_upload, days_in_space, pick>>
  /\ Run(files, uploads, enable_upload, days_in_space, pick)

\* "Clear cache" of the Streamlit menu (st.cache_data.clear()).
ClearCache ==
  /\ app_cache # EmptyCache \/ main_cache # EmptyCache
  /\ app_cache' = EmptyCache
  /\ main_cache' = EmptyCache
  /\ UNCHANGED <<files, uploads, enable_upload, days_in_space, pick, app_out, main_out>>

\* The record sets stay as first loaded; the user works the widgets.
Next == MoveSlider \/ SelectGene \/ SelectMarker

Spec == Init /\ [][Next]_vars

\* Files and uploads come and go as well.
NextReload ==
  \/ MoveSlider
  \/ ToggleUpload
  \/ Upload
  \/ WithdrawUpload
  \/ FileAppears
  \/ FileDisappears
  \/ Rerun
  \/ ClearCache

SpecReload == InitReload /\ [][NextReload]_vars

----------------------------------------------------------------------------
(* Vocabulary of the properties *)

\* The rows of `rows` with Timepoint at most b, front to back.
RECURSIVE RowsAtMost(_, _)
RowsAtMost(rows, b) ==
  IF rows = <<>> THEN <<>>
  ELSE IF Head(rows).Timepoint <= b
         THEN <<Head(rows)>> \o RowsAtMost(Tail(rows), b)
         ELSE RowsAtMost(Tail(rows), b)

\* The rows of `rows` whose column col holds v, front to back.
RECURSIVE RowsWith(_, _, _)
RowsWith(rows, col, v) ==
  IF rows = <<>> THEN <<>>
  ELSE IF Head(rows)[col] = v
         THEN <<Head(rows)>> \o RowsWith(Tail(rows), col, v)
         ELSE RowsWith(Tail(rows), col, v)

\* s can be had from t by dropping rows.
RECURSIVE IsSubSeq(_, _)
IsSubSeq(s, t) ==
  IF s = <<>> THEN TRUE
  ELSE IF t = <<>> THEN FALSE
  ELSE IF Head(s) = Head(t) THEN IsSubSeq(Tail(s), Tail(t))
  ELSE IsSubSeq(s, Tail(t))

RowsOf(df) == IF IsFrame(df) THEN df.rows ELSE <<>>

UpTo(R, b) == [columns |-> R.columns, rows |-> RowsAtMost(R.rows, b)]

\* A filter compares the bound with the Timepoints only, so these bounds
\* stand for all of 0..max_days: each Timepoint, its two neighbours, and the
\* ends of the slider.
Bounds ==
  {b \in 0..max_days : b \in {0, max_days} \/ \E t \in TimeVals : b \in {t - 1, t, t + 1}}

\* The record sets the last runs loaded.
LoadedFrames ==
  {R \in {app_out.loaded[p] : p \in Paths} \cup {main_out.loaded[p] : p \in Paths} :
     IsFrame(R)}

\* Both data sets were loaded in this run.
BothLoaded(out) == \A p \in Paths : IsFrame(out.loaded[p])

----------------------------------------------------------------------------
(* The filter *)

\* C1: for a loaded record set with a Timepoint column and a bound within
\* the slider's range, both filters return exactly the rows with Timepoint <= bound, in
\* their original order, and that is what each run filtered to.
C1_FilterExact ==
  /\ \A R \in LoadedFrames : \A b \in Bounds :
       "Timepoint" \in R.columns =>
         /\ filter_by_days(R, b) = UpTo(R, b)
         /\ filter_days(R, b) = UpTo(R, b)
  /\ \A p \in Paths :
       LET appF  == IF p = GENE_FILE THEN app_out.gene_f ELSE app_out.ox_f
           mainF == IF p = GENE_FILE THEN main_out.gene_f ELSE main_out.ox_f
       IN /\ (appF # Skipped /\ "Timepoint" \in app_out.loaded[p].columns)
               => appF = UpTo(app_out.loaded[p], days_in_space)
          /\ (mainF # Skipped /\ "Timepoint" \in main_out.loaded[p].columns)
               => mainF = UpTo(main_out.loaded[p], days_in_space)

\* A run at bound 200 that kept the row at 200 and dropped the row at 400.
C1_Witness ==
  /\ days_in_space = 200
  /\ IsFrame(app_out.gene_f) /\ IsFrame(main_out.gene_f)
  /\ app_out.loaded[GENE_FILE].rows =
       << [Timepoint |-> 400, Twin |-> "A", Gene |-> "X", Expression |-> 1],
          [Timepoint |-> 200, Twin |-> "A", Gene |-> "X", Expression |-> 1] >>
  /\ app_out.gene_f.rows =
       << [Timepoint |-> 200, Twin |-> "A", Gene |-> "X", Expression |-> 1] >>
  /\ main_out.gene_f = app_out.gene_f

\* C5: the filter is monotone in the bound: the rows kept at a lower bound
\* are among the rows kept at a higher one, in both implementations, and
\* among the rows each run filtered to.
C5_FilterMonotone ==
  /\ \A R \in LoadedFrames : \A b \in Bounds : \A lower \in Bounds :
       lower < b =>
         /\ IsSubSeq(RowsOf(filter_by_days(R, lower)), RowsOf(filter_by_days(R, b)))
         /\ IsSubSeq(RowsOf(filter_days(R, lower)), RowsOf(filter_days(R, b)))
  /\ \A lower \in Bounds :
       lower < days_in_space =>
         /\ IsFrame(app_out.gene_f) =>
              IsSubSeq(RowsOf(filter_by_days(app_out.loaded[GENE_FILE], lower)),
                       app_out.gene_f.rows)
         /\ IsFrame(main_out.ox_f) =>
              IsSubSeq(RowsOf(filter_days(main_out.loaded[OX_FILE], lower)),
                       main_out.ox_f.rows)

\* The slider at 200 keeps two rows where the slider at 0 keeps one.
C5_Witness ==
  /\ days_in_space = 200
  /\ IsFrame(main_out.ox_f)
  /\ Len(main_out.ox_f.rows) = 2
  /\ Len(RowsOf(filter_days(main_out.loaded[OX_FILE], 0))) = 1
  /\ IsFrame(app_out.ox_f)
  /\ Len(RowsOf(filter_by_days(app_out.loaded[OX_FILE], 0))) = 1

\* C6: filtering is idempotent: filtering a filtered set again by the same
\* bound changes nothing, in both implementations, with or without a
\* Timepoint column (main.py: None stays None).
C6_FilterIdempotent ==
  /\ \A R \in LoadedFrames : \A b \in Bounds :
       /\ filter_by_days(filter_by_days(R, b), b) = filter_by_days(R, b)
       /\ filter_days(filter_days(R, b), b) = filter_days(R, b)
  /\ IsFrame(app_out.gene_f) =>
       filter_by_days(app_out.gene_f, days_in_space) = app_out.gene_f
  /\ main_out.gene_f # Skipped =>
       filter_days(main_out.gene_f, days_in_space) = main_out.gene_f

\* A record set without Timepoint: app.py passed it through, main.py
\* filtered it to None; and the other one lost a row to the filter.
C6_Witness ==
  /\ BothLoaded(app_out)
  /\ "Timepoint" \notin app_out.loaded[GENE_FILE].columns
  /\ app_out.gene_f = app_out.loaded[GENE_FILE]
  /\ main_out.gene_f = None
  /\ IsFrame(app_out.ox_f)
  /\ Len(app_out.ox_f.rows) < Len(app_out.loaded[OX_FILE].rows)

----------------------------------------------------------------------------
(* Selectors and panels *)

Runs == {app_out, main_out}

GeneRequired_cols == {"Timepoint", "Twin", "Expression"}
OxRequired_cols   == {"Timepoint", "Value"}

OffersDistinct(select, R, col) ==
  /\ Range(select.options) = {r[col] : r \in Range(R.rows)}
  /\ Len(select.options) = Cardinality(Range(select.options))

C10_Options ==
  \A out \in Runs :
    /\ out.gene_select.shown => OffersDistinct(out.gene_select, out.loaded[GENE_FILE], "Gene")
    /\ out.ox_select.shown => OffersDistinct(out.ox_select, out.loaded[OX_FILE], "Marker")

\* A value with no filtered row gives its panel an empty set, and the panel
\* shows the error banner only if a chart-required column is missing.
C10_EmptyNotError ==
  \A out \in Runs :
    /\ (out.gene_panel.kind # "none"
          /\ RowsWith(out.gene_f.rows, "Gene", out.gene_select.value) = <<>>)
         => /\ out.gene_panel.rows = <<>>
            /\ out.gene_panel.kind = "error"
                 => ~(GeneRequired_cols \subseteq out.loaded[GENE_FILE].columns)
    /\ (out.ox_panel.kind # "none"
          /\ RowsWith(out.ox_f.rows, "Marker", out.ox_select.value) = <<>>)
         => /\ out.ox_panel.rows = <<>>
            /\ out.ox_panel.kind = "error"
                 => ~(OxRequired_cols \subseteq out.loaded[OX_FILE].columns)

\* A step that moves the slider leaves the options of both dropdowns alone.
C10_SliderKeepsOptions ==
  days_in_space' # days_in_space =>
    /\ app_out'.gene_select.options = app_out.gene_select.options
    /\ app_out'.ox_select.options = app_out.ox_select.options
    /\ main_out'.gene_select.options = main_out.gene_select.options
    /\ main_out'.ox_select.options = main_out.ox_select.options

C8_MissingColumnPerPanel ==
  \A out \in Runs :
    (BothLoaded(out)
       /\ "Gene" \in out.loaded[GENE_FILE].columns
       /\ "Marker" \in out.loaded[OX_FILE].columns)
      => LET geneOk == GeneRequired_cols \subseteq out.loaded[GENE_FILE].columns
             oxOk   == OxRequired_cols \subseteq out.loaded[OX_FILE].columns
         IN /\ out.status # "aborted"
            /\ out.gene_panel.kind = IF geneOk THEN "chart" ELSE "error"
            /\ out.ox_panel.kind = IF oxOk THEN "chart" ELSE "error"

\* What a panel shows: the chart and its rows, the banner, or nothing.
PanelView(panel) ==
  IF panel.kind = "chart" THEN panel ELSE [kind |-> panel.kind, rows |-> <<>>]

\* C9 as stated: on the same inputs app.py and main.py show the same thing
\* in each panel.
C9_SameOutcome ==
  /\ PanelView(app_out.gene_panel) = PanelView(main_out.gene_panel)
  /\ PanelView(app_out.ox_panel) = PanelView(main_out.ox_panel)

----------------------------------------------------------------------------
(* The loader *)

\* C3 as stated: each run is handed what an uncached loader would return
\* for the upload mode, uploads and files of that run.
C3_MemoTransparent ==
  \A out \in Runs : \A p \in Paths : out.loaded[p] = out.uncached[p]

\* C4 as stated: upload mode off and a source file missing: the loader
\* returns None, the warning is shown, the run halts before any selector or
\* chart; and no run with an absent data set renders a chart.
C4_MissingSourceHalts ==
  \A out \in Runs :
    /\ \A p \in Paths :
         (~out.upload_mode /\ p \notin out.existed)
           => /\ out.loaded[p] = None
              /\ FileNotFound(p) \in out.messages
              /\ out.status = "halted"
              /\ ~out.gene_select.shown /\ ~out.ox_select.shown
              /\ out.gene_panel = NoPanel /\ out.ox_panel = NoPanel
    /\ (\E p \in Paths : out.loaded[p] = None)
         => (out.gene_panel.kind # "chart" /\ out.ox_panel.kind # "chart")

====
